---- MODULE Spec2Model ----
(***************************************************************************)
(* State-machine model of the ADXL343 accelerometer driver (adxl343.py).   *)
(*                                                                         *)
(* The device is a small register file behind an I2C bus.  The driver      *)
(* keeps one piece of derived state, _cached_resolution, next to the       *)
(* Resolution Mode and Range fields of the device.  Every handler is cut   *)
(* at its bus transactions and cache assignments, in source order, so the  *)
(* ordering of register writes and cache updates is visible.               *)
(*                                                                         *)
(* Resolutions are counted in thousandths of a g per count (0.004 -> 4).   *)
(* A bus transaction either completes or raises a transport error, which   *)
(* propagates out of the handler at that statement.                        *)
(***************************************************************************)
EXTENDS Integers, Sequences, FiniteSets, TLC

\* ------------------------------------------------------------ bounds

\* Setter arguments are drawn from -1 .. MaxValue (in and out of domain).
MaxValue == 4

\* Number of bits, besides the driver's fields, that the initial contents of
\* POWER_CTL and of DATA_FORMAT may have set (taken from bit 2 upwards,
\* skipping the driver's own bit 3).
MaxOtherBits == 1

\* ------------------------------------------------------- program constants

REG_WHOAMI == 0
POWER_CTL == 45
DATA_FORMAT == 49
ACC == 50

STANDBY == 0
READY == 1
measurement_mode_values == {STANDBY, READY}

LOW_RES == 0
HIGH_RES == 1
resolution_mode_values == {LOW_RES, HIGH_RES}

RANGE_2 == 0
RANGE_4 == 1
RANGE_8 == 2
RANGE_16 == 3
acceleration_range_values == {RANGE_2, RANGE_4, RANGE_8, RANGE_16}

\* The identity byte __init__ expects (0xE5).
DEVICE_ID == 229

\* self._cached_resolution = 0.004, in thousandths.
DEFAULT_RESOLUTION == 4

\* res_values = {0: 0.004, 1: 0.008, 2: 0.016, 3: 0.031}, in thousandths.
res_values == (0 :> 4) @@ (1 :> 8) @@ (2 :> 16) @@ (3 :> 31)

\* _STANDARD_GRAVITY = 9.80665, in units of 10^-5 m/s^2.
STANDARD_GRAVITY == 980665

\* ------------------------------------------------------------ bit fields

RECURSIVE Pow2(_)
Pow2(n) == IF n = 0 THEN 1 ELSE 2 * Pow2(n - 1)

Bit(x, i) == (x \div Pow2(i)) % 2

\* Bitwise and / or / and-not of two bytes.
RECURSIVE BitAnd(_, _, _)
BitAnd(a, b, i) ==
    IF i = 8 THEN 0
    ELSE (IF Bit(a, i) = 1 /\ Bit(b, i) = 1 THEN Pow2(i) ELSE 0) + BitAnd(a, b, i + 1)

RECURSIVE BitOr(_, _, _)
BitOr(a, b, i) ==
    IF i = 8 THEN 0
    ELSE (IF Bit(a, i) = 1 \/ Bit(b, i) = 1 THEN Pow2(i) ELSE 0) + BitOr(a, b, i + 1)

RECURSIVE BitClear(_, _, _)
BitClear(a, m, i) ==
    IF i = 8 THEN 0
    ELSE (IF Bit(a, i) = 1 /\ Bit(m, i) = 0 THEN Pow2(i) ELSE 0) + BitClear(a, m, i + 1)

\* A faulty write: the field is stored without keeping the other bits.
Mutant_RWBitsSet(reg, num_bits, lowest_bit, value) ==
    (value * Pow2(lowest_bit)) % 256

\* RWBits(num_bits, register_address, lowest_bit): the descriptor's mask,
\* what reading it returns from a register byte, and the byte that writing
\* `value` to it stores (read, clear the field, or in the shifted value).
BitMask(num_bits, lowest_bit) == (Pow2(num_bits) - 1) * Pow2(lowest_bit)

RWBitsGet(reg, num_bits, lowest_bit) ==
    BitAnd(reg, BitMask(num_bits, lowest_bit), 0) \div Pow2(lowest_bit)

RWBitsSet(reg, num_bits, lowest_bit, value) ==
    BitOr(BitClear(reg, BitMask(num_bits, lowest_bit), 0),
          (value * Pow2(lowest_bit)) % 256, 0)

\* _measurement_mode = RWBits(1, _POWER_CTL, 3)
MeasurementModeBit(regs) == RWBitsGet(regs[POWER_CTL], 1, 3)
\* _resolution_mode = RWBits(1, _DATA_FORMAT, 3)
ResolutionModeBit(regs) == RWBitsGet(regs[DATA_FORMAT], 1, 3)
\* _acceleration_range = RWBits(2, _DATA_FORMAT, 0)
RangeBits(regs) == RWBitsGet(regs[DATA_FORMAT], 2, 0)

\* ------------------------------------------------------------ state

VARIABLES
    regs,               \* device registers: address -> byte
    cached_resolution,  \* self._cached_resolution, in thousandths
    cache_set,          \* whether the attribute _cached_resolution exists
    pc,                 \* the statement the running handler is at
    op,                 \* the handler running (or the last one run)
    arg,                \* its argument (setters)
    rd,                 \* what the handler read last (a field, or the sample)
    log,                \* bus transactions the current call has issued
    result,             \* how the last call ended
    ret,                \* what the last call returned (<<>> if nothing)
    pre,                \* registers and cache as they were when it started
    transport_failed,   \* some bus transaction has raised so far
    last_set            \* per setting: the value of its last set, if that set
                        \* completed and none was begun since (else -1)

vars == <<regs, cached_resolution, cache_set, pc, op, arg, rd, log, result,
          ret, pre, transport_failed, last_set>>

Registers == {REG_WHOAMI, POWER_CTL, DATA_FORMAT}

\* Arguments the callers pass to the setters.
Values == -1 .. MaxValue

\* Raw counts one axis of the sample block may hold (signed 16-bit).
RawCounts == {-32768, -500, 0, 1000}

\* Bytes made of the first n bit positions outside the driver's fields.
OtherBitPositions == <<2, 4, 5, 6, 7>>
RECURSIVE OtherBytes(_)
OtherBytes(n) ==
    IF n = 0 THEN {0}
    ELSE LET s == OtherBytes(n - 1)
         IN  s \cup {b + Pow2(OtherBitPositions[n]) : b \in s}

\* Identity bytes a device on the bus may answer with.
IdentityBytes == {DEVICE_ID, 0, DEVICE_ID + 1}

Snapshot == [regs |-> regs, cache |-> cached_resolution]

\* A transaction on the bus: <<"r" | "w", register address>>.
Rd(addr) == <<"r", addr>>
Wr(addr) == <<"w", addr>>

\* ------------------------------------------------------------ descriptors

\* A descriptor's __get__ (RWBits, ROUnaryStruct): one register read.
FieldRead(addr, fail) ==
    /\ log' = Append(log, Rd(addr))
    /\ transport_failed' = (transport_failed \/ fail # "none")

\* RWBits.__set__: read the register, then write it back with the field
\* replaced.  `fail` says which of the two transactions raises, if any.
FieldWrite(addr, num_bits, lowest_bit, value, fail) ==
    /\ regs' = IF fail = "none"
               THEN [regs EXCEPT ![addr] = RWBitsSet(regs[addr], num_bits, lowest_bit, value)]
               ELSE regs
    /\ log' = IF fail = "read" THEN Append(log, Rd(addr))
              ELSE log \o <<Rd(addr), Wr(addr)>>
    /\ transport_failed' = (transport_failed \/ fail # "none")

ReadFailures == {"none", "read"}
WriteFailures == {"none", "read", "write"}

\* ------------------------------------------------------------ construction

Init ==
    /\ \E id \in IdentityBytes,
          po \in OtherBytes(MaxOtherBits), pm \in {0, 1},
          do \in OtherBytes(MaxOtherBits), dm \in {0, 1}, dr \in 0..3 :
          /\ regs = (REG_WHOAMI :> id) @@ (POWER_CTL :> po + 8 * pm)
                       @@ (DATA_FORMAT :> do + 8 * dm + dr)
          /\ pre = [regs |-> regs, cache |-> 0]
    /\ cached_resolution = 0
    /\ cache_set = FALSE
    /\ pc = "init_device_id"
    /\ op = "__init__"
    /\ arg = 0
    /\ rd = 0
    /\ log = <<>>
    /\ result = "none"
    /\ ret = <<>>
    /\ transport_failed = FALSE
    /\ last_set = [s \in {"measurement_mode", "resolution_mode", "acceleration_range"} |-> -1]

\* A faulty identity test: a lower bound instead of an equality.
Mutant_IdentityMatches(id) == id >= DEVICE_ID

\* if self._device_id != 0xE5: raise RuntimeError
IdentityMatches(id) == id = DEVICE_ID

init_device_id ==
    /\ pc = "init_device_id"
    /\ \E fail \in ReadFailures :
          /\ FieldRead(REG_WHOAMI, fail)
          /\ IF fail # "none"
             THEN pc' = "dead" /\ result' = "OSError"
             ELSE IF ~IdentityMatches(regs[REG_WHOAMI])
             THEN pc' = "dead" /\ result' = "RuntimeError"
             ELSE pc' = "init_measurement_mode" /\ result' = result
    /\ UNCHANGED <<last_set, regs, cached_resolution, cache_set, op, arg, rd, ret, pre>>

\* A faulty constructor: the Resolution Mode write is left out.
Mutant_init_measurement_mode ==
    /\ pc = "init_measurement_mode"
    /\ \E fail \in WriteFailures :
          /\ FieldWrite(POWER_CTL, 1, 3, 1, fail)
          /\ IF fail # "none"
             THEN pc' = "dead" /\ result' = "OSError"
             ELSE pc' = "init_cached_resolution" /\ result' = result
    /\ UNCHANGED <<last_set, cached_resolution, cache_set, op, arg, rd, ret, pre>>

\* self._measurement_mode = True
init_measurement_mode ==
    /\ pc = "init_measurement_mode"
    /\ \E fail \in WriteFailures :
          /\ FieldWrite(POWER_CTL, 1, 3, 1, fail)
          /\ IF fail # "none"
             THEN pc' = "dead" /\ result' = "OSError"
             ELSE pc' = "init_resolution_mode" /\ result' = result
    /\ UNCHANGED <<last_set, cached_resolution, cache_set, op, arg, rd, ret, pre>>

\* self._resolution_mode = True
init_resolution_mode ==
    /\ pc = "init_resolution_mode"
    /\ \E fail \in WriteFailures :
          /\ FieldWrite(DATA_FORMAT, 1, 3, 1, fail)
          /\ IF fail # "none"
             THEN pc' = "dead" /\ result' = "OSError"
             ELSE pc' = "init_cached_resolution" /\ result' = result
    /\ UNCHANGED <<last_set, cached_resolution, cache_set, op, arg, rd, ret, pre>>

\* self._cached_resolution = 0.004
init_cached_resolution ==
    /\ pc = "init_cached_resolution"
    /\ cached_resolution' = DEFAULT_RESOLUTION
    /\ cache_set' = TRUE
    /\ pc' = "idle"
    /\ result' = "ok"
    /\ UNCHANGED <<last_set, regs, op, arg, rd, log, ret, pre, transport_failed>>

\* ------------------------------------------------------------ calls

\* A caller invokes `name` on the constructed instance.
Enter(name, value) ==
    /\ pc = "idle"
    /\ op' = name
    /\ arg' = value
    /\ rd' = 0
    /\ ret' = <<>>
    /\ pre' = Snapshot

\* The handler raises `error` at its current statement.
Raise(error) ==
    /\ pc' = "idle"
    /\ result' = error

\* The handler returns.
Return ==
    /\ pc' = "idle"
    /\ result' = "ok"

\* ---- measurement_mode setter

\* A faulty domain test: the Range tuple in place of the Measurement Mode one.
Mutant_ValidMeasurementMode(value) == value \in acceleration_range_values

ValidMeasurementMode(value) == value \in measurement_mode_values

\* if value not in measurement_mode_values: raise ValueError
measurement_mode_setter ==
    /\ \E value \in Values :
          /\ Enter("measurement_mode", value)
          /\ IF ValidMeasurementMode(value)
             THEN pc' = "measurement_mode_write" /\ result' = "none"
             ELSE Raise("ValueError")
    /\ log' = <<>>
    /\ last_set' = IF ValidMeasurementMode(arg') THEN [last_set EXCEPT ![op'] = -1] ELSE last_set
    /\ UNCHANGED <<regs, cached_resolution, cache_set, transport_failed>>

\* self._measurement_mode = value
measurement_mode_write ==
    /\ pc = "measurement_mode_write"
    /\ \E fail \in WriteFailures :
          /\ FieldWrite(POWER_CTL, 1, 3, arg, fail)
          /\ IF fail # "none" THEN Raise("OSError") ELSE Return
          /\ last_set' = IF fail = "none" THEN [last_set EXCEPT ![op] = arg] ELSE last_set
    /\ UNCHANGED <<cached_resolution, cache_set, op, arg, rd, ret, pre>>

\* ---- acceleration_range setter

ValidAccelerationRange(value) == value \in acceleration_range_values

\* A faulty range setter: the table is used whatever the Resolution Mode.
Mutant_RangeSetterResolution(mode, value) == res_values[value]

\* The value the range setter assigns to the cache, from the Resolution
\* Mode it read and its argument:
\*   if self._resolution_mode == 0: res_values[value]  else: 0.004
RangeSetterResolution(mode, value) ==
    IF mode = 0 THEN res_values[value] ELSE DEFAULT_RESOLUTION

\* if value not in acceleration_range_values: raise ValueError
acceleration_range_setter ==
    /\ \E value \in Values :
          /\ Enter("acceleration_range", value)
          /\ IF ValidAccelerationRange(value)
             THEN pc' = "acceleration_range_read_mode" /\ result' = "none"
             ELSE Raise("ValueError")
    /\ log' = <<>>
    /\ last_set' = IF ValidAccelerationRange(arg') THEN [last_set EXCEPT ![op'] = -1] ELSE last_set
    /\ UNCHANGED <<regs, cached_resolution, cache_set, transport_failed>>

\* if self._resolution_mode == 0:  (the read of the field)
acceleration_range_read_mode ==
    /\ pc = "acceleration_range_read_mode"
    /\ \E fail \in ReadFailures :
          /\ FieldRead(DATA_FORMAT, fail)
          /\ IF fail # "none"
             THEN Raise("OSError") /\ rd' = rd
             ELSE /\ rd' = ResolutionModeBit(regs)
                  /\ pc' = "acceleration_range_cache"
                  /\ result' = result
    /\ UNCHANGED <<last_set, regs, cached_resolution, cache_set, op, arg, ret, pre>>

\* A faulty range setter: the cache assignment is left out.
Mutant_acceleration_range_cache ==
    /\ pc = "acceleration_range_cache"
    /\ pc' = "acceleration_range_write"
    /\ UNCHANGED <<last_set, regs, cached_resolution, cache_set, op, arg, rd, log, result,
                   ret, pre, transport_failed>>

\* self._cached_resolution = res_values[value]  /  = 0.004
acceleration_range_cache ==
    /\ pc = "acceleration_range_cache"
    /\ cached_resolution' = RangeSetterResolution(rd, arg)
    /\ pc' = "acceleration_range_write"
    /\ UNCHANGED <<last_set, regs, cache_set, op, arg, rd, log, result, ret, pre,
                   transport_failed>>

\* A faulty range write: a field four bits wide in place of two.
Mutant_acceleration_range_write ==
    /\ pc = "acceleration_range_write"
    /\ \E fail \in WriteFailures :
          /\ FieldWrite(DATA_FORMAT, 4, 0, arg, fail)
          /\ IF fail # "none" THEN Raise("OSError") ELSE Return
          /\ last_set' = IF fail = "none" THEN [last_set EXCEPT ![op] = arg] ELSE last_set
    /\ UNCHANGED <<cached_resolution, cache_set, op, arg, rd, ret, pre>>

\* self._acceleration_range = value
acceleration_range_write ==
    /\ pc = "acceleration_range_write"
    /\ \E fail \in WriteFailures :
          /\ FieldWrite(DATA_FORMAT, 2, 0, arg, fail)
          /\ IF fail # "none" THEN Raise("OSError") ELSE Return
          /\ last_set' = IF fail = "none" THEN [last_set EXCEPT ![op] = arg] ELSE last_set
    /\ UNCHANGED <<cached_resolution, cache_set, op, arg, rd, ret, pre>>

\* ---- resolution_mode setter

ValidResolutionMode(value) == value \in resolution_mode_values

\* A faulty resolution setter: the cache is left at 0.004 in LOW_RES too.
Mutant_ModeSetterResolution(value, range) == DEFAULT_RESOLUTION

\* The value the resolution setter assigns to the cache, from its argument
\* and the Range it read (read only when value == 0):
\*   if value == 0: res_values[self._acceleration_range]  else: 0.004
ModeSetterResolution(value, range) ==
    IF value = 0 THEN res_values[range] ELSE DEFAULT_RESOLUTION

\* if value not in resolution_mode_values: raise ValueError
resolution_mode_setter ==
    /\ \E value \in Values :
          /\ Enter("resolution_mode", value)
          /\ IF ValidResolutionMode(value)
             THEN pc' = "resolution_mode_write" /\ result' = "none"
             ELSE Raise("ValueError")
    /\ log' = <<>>
    /\ last_set' = IF ValidResolutionMode(arg') THEN [last_set EXCEPT ![op'] = -1] ELSE last_set
    /\ UNCHANGED <<regs, cached_resolution, cache_set, transport_failed>>

\* self._resolution_mode = value ; if value == 0:
resolution_mode_write ==
    /\ pc = "resolution_mode_write"
    /\ \E fail \in WriteFailures :
          /\ FieldWrite(DATA_FORMAT, 1, 3, arg, fail)
          /\ IF fail # "none"
             THEN Raise("OSError")
             ELSE /\ pc' = IF arg = 0 THEN "resolution_mode_read_range"
                           ELSE "resolution_mode_cache"
                  /\ result' = result
    /\ UNCHANGED <<last_set, cached_resolution, cache_set, op, arg, rd, ret, pre>>

\* res_values[self._acceleration_range]  (the read of the field)
resolution_mode_read_range ==
    /\ pc = "resolution_mode_read_range"
    /\ \E fail \in ReadFailures :
          /\ FieldRead(DATA_FORMAT, fail)
          /\ IF fail # "none"
             THEN Raise("OSError") /\ rd' = rd
             ELSE /\ rd' = RangeBits(regs)
                  /\ pc' = "resolution_mode_cache"
                  /\ result' = result
    /\ UNCHANGED <<last_set, regs, cached_resolution, cache_set, op, arg, ret, pre>>

\* self._cached_resolution = res_values[...]  /  = 0.004
resolution_mode_cache ==
    /\ pc = "resolution_mode_cache"
    /\ cached_resolution' = ModeSetterResolution(arg, rd)
    /\ Return
    /\ last_set' = [last_set EXCEPT ![op] = arg]
    /\ UNCHANGED <<regs, cache_set, op, arg, rd, log, ret, pre, transport_failed>>

\* ---- acceleration

\* A faulty scaling: the reset-default resolution in place of the cache.
Mutant_Scale(count, resolution) ==
    LET a  == count * DEFAULT_RESOLUTION
        lo == a * (STANDARD_GRAVITY % 10000)
    IN  <<a * (STANDARD_GRAVITY \div 10000) + (lo \div 10000), lo % 10000>>

\* x * _STANDARD_GRAVITY * self._cached_resolution, exactly, as the pair
\* <<h, l>> standing for h * 10^-4 + l * 10^-8 m/s^2 with 0 <= l < 10^4
\* (the product is formed in two limbs to stay inside 32-bit integers).
Scale(count, resolution) ==
    LET a  == count * resolution
        lo == a * (STANDARD_GRAVITY % 10000)
    IN  <<a * (STANDARD_GRAVITY \div 10000) + (lo \div 10000), lo % 10000>>

\* The caller reads the property `acceleration`.
acceleration ==
    /\ Enter("acceleration", 0)
    /\ pc' = "acceleration_data"
    /\ result' = "none"
    /\ log' = <<>>
    /\ UNCHANGED <<last_set, regs, cached_resolution, cache_set, transport_failed>>

\* x, y, z = self._acceleration_data   (one read of the six-byte block)
acceleration_data ==
    /\ pc = "acceleration_data"
    /\ \E fail \in ReadFailures, x \in RawCounts, y \in RawCounts, z \in RawCounts :
          /\ FieldRead(ACC, fail)
          /\ IF fail # "none"
             THEN Raise("OSError") /\ rd' = rd
             ELSE /\ rd' = <<x, y, z>>
                  /\ pc' = "acceleration_scale"
                  /\ result' = result
    /\ UNCHANGED <<last_set, regs, cached_resolution, cache_set, op, arg, ret, pre>>

\* A faulty reading: the resolution is derived again from the registers.
Mutant_acceleration_scale ==
    /\ pc = "acceleration_scale"
    /\ log' = Append(log, Rd(DATA_FORMAT))
    /\ cached_resolution' = RangeSetterResolution(ResolutionModeBit(regs), RangeBits(regs))
    /\ ret' = <<Scale(rd[1], cached_resolution'), Scale(rd[2], cached_resolution'),
                Scale(rd[3], cached_resolution')>>
    /\ Return
    /\ UNCHANGED <<last_set, regs, cache_set, op, arg, rd, pre, transport_failed>>

\* x = x * _STANDARD_GRAVITY * self._cached_resolution (y, z alike) ; return
acceleration_scale ==
    /\ pc = "acceleration_scale"
    /\ ret' = <<Scale(rd[1], cached_resolution), Scale(rd[2], cached_resolution),
                Scale(rd[3], cached_resolution)>>
    /\ Return
    /\ UNCHANGED <<last_set, regs, cached_resolution, cache_set, op, arg, rd, log, pre,
                   transport_failed>>

\* ---- getters

\* values = ("STANDBY", "READY")
measurement_mode_names == <<"STANDBY", "READY">>
\* values = ("RANGE_2", "RANGE_4", "RANGE_8", "RANGE_16")
acceleration_range_names == <<"RANGE_2", "RANGE_4", "RANGE_8", "RANGE_16">>
\* values = ("LOW_RES", "HIGH_RES")
resolution_mode_names == <<"LOW_RES", "HIGH_RES">>

\* A faulty lookup: the tuple of names is taken in reverse order.
Mutant_Item(values, i) == values[Len(values) - i]

\* values[i] of a Python tuple (indices from 0).
Item(values, i) == values[i + 1]

\* The caller reads one of the properties measurement_mode,
\* acceleration_range, resolution_mode.
getter ==
    /\ \E name \in {"get_measurement_mode", "get_acceleration_range",
                    "get_resolution_mode"} :
          /\ Enter(name, 0)
          /\ pc' = name
    /\ result' = "none"
    /\ log' = <<>>
    /\ UNCHANGED <<last_set, regs, cached_resolution, cache_set, transport_failed>>

\* A faulty getter: the identity is verified again before the field is read.
Mutant_measurement_mode_getter ==
    /\ pc = "get_measurement_mode"
    /\ log' = <<Rd(REG_WHOAMI), Rd(POWER_CTL)>>
    /\ ret' = <<Item(measurement_mode_names, MeasurementModeBit(regs))>>
    /\ Return
    /\ UNCHANGED <<last_set, regs, cached_resolution, cache_set, op, arg, rd, pre,
                   transport_failed>>

\* return values[self._measurement_mode]
measurement_mode_getter ==
    /\ pc = "get_measurement_mode"
    /\ \E fail \in ReadFailures :
          /\ FieldRead(POWER_CTL, fail)
          /\ IF fail # "none"
             THEN Raise("OSError") /\ ret' = ret
             ELSE /\ ret' = <<Item(measurement_mode_names, MeasurementModeBit(regs))>>
                  /\ Return
    /\ UNCHANGED <<last_set, regs, cached_resolution, cache_set, op, arg, rd, pre>>

\* return values[self._acceleration_range]
acceleration_range_getter ==
    /\ pc = "get_acceleration_range"
    /\ \E fail \in ReadFailures :
          /\ FieldRead(DATA_FORMAT, fail)
          /\ IF fail # "none"
             THEN Raise("OSError") /\ ret' = ret
             ELSE /\ ret' = <<Item(acceleration_range_names, RangeBits(regs))>>
                  /\ Return
    /\ UNCHANGED <<last_set, regs, cached_resolution, cache_set, op, arg, rd, pre>>

\* return values[self._resolution_mode]
resolution_mode_getter ==
    /\ pc = "get_resolution_mode"
    /\ \E fail \in ReadFailures :
          /\ FieldRead(DATA_FORMAT, fail)
          /\ IF fail # "none"
             THEN Raise("OSError") /\ ret' = ret
             ELSE /\ ret' = <<Item(resolution_mode_names, ResolutionModeBit(regs))>>
                  /\ Return
    /\ UNCHANGED <<last_set, regs, cached_resolution, cache_set, op, arg, rd, pre>>

\* ------------------------------------------------------------ specification

Next ==
    \/ init_device_id
    \/ init_measurement_mode
    \/ init_resolution_mode
    \/ init_cached_resolution
    \/ measurement_mode_setter
    \/ measurement_mode_write
    \/ acceleration_range_setter
    \/ acceleration_range_read_mode
    \/ acceleration_range_cache
    \/ acceleration_range_write
    \/ resolution_mode_setter
    \/ resolution_mode_write
    \/ resolution_mode_read_range
    \/ resolution_mode_cache
    \/ acceleration
    \/ acceleration_data
    \/ acceleration_scale
    \/ getter
    \/ measurement_mode_getter
    \/ acceleration_range_getter
    \/ resolution_mode_getter

Spec == Init /\ [][Next]_vars

\* ------------------------------------------------------------ properties

\* The range -> resolution table of the specification, in thousandths.
TableValue(range) ==
    CASE range = 0 -> 4
      [] range = 1 -> 8
      [] range = 2 -> 16
      [] range = 3 -> 31

\* The resolution dictated by the Resolution Mode and Range fields that a
\* register file holds.
Dictated(r) ==
    IF ResolutionModeBit(r) = 1 THEN 4 ELSE TableValue(RangeBits(r))

Setters == {"measurement_mode", "resolution_mode", "acceleration_range"}

\* The declared domain of each setting.
Domain(name) ==
    CASE name = "measurement_mode" -> {0, 1}
      [] name = "resolution_mode" -> {0, 1}
      [] name = "acceleration_range" -> {0, 1, 2, 3}

NoWrite(l) == \A i \in 1..Len(l) : l[i][1] # "w"

\* C1: with no transport failure so far, between calls the cache equals
\* 0.004 if the device's Resolution Mode bit is HIGH_RES and the table value
\* of the device's Range bits if it is LOW_RES.
C1_CacheMatchesRegisters ==
    (pc = "idle" /\ ~transport_failed) => cached_resolution = Dictated(regs)

C1_Witness ==
    /\ pc = "idle" /\ ~transport_failed
    /\ op = "acceleration_range" /\ result = "ok"
    /\ ResolutionModeBit(regs) = 0 /\ RangeBits(regs) = 3
    /\ cached_resolution = 31 /\ pre.cache = 4

\* C2: if the identity register holds anything but 0xE5, construction ends
\* in the device-not-found error once the identity has been read, writes no
\* register, never creates the cache, and never yields an instance on which
\* an operation can be called.
C2_IdentityMismatchFails ==
    regs[REG_WHOAMI] # 229 =>
        /\ pc \in {"init_device_id", "dead"}
        /\ op = "__init__"
        /\ (pc = "dead" /\ ~transport_failed => result = "RuntimeError")
        /\ NoWrite(log)
        /\ regs = pre.regs
        /\ ~cache_set

C2_Witness ==
    /\ regs[REG_WHOAMI] = 230
    /\ pc = "dead" /\ result = "RuntimeError"
    /\ log = <<Rd(REG_WHOAMI)>>

\* C3: a setter called with a value outside its declared domain ends in the
\* invalid-value error with no bus transaction issued and with the cache and
\* every device register as they were before the call.
C3_OutOfDomainRejected ==
    (op \in Setters /\ arg \notin Domain(op)) =>
        /\ pc = "idle"
        /\ result = "ValueError"
        /\ log = <<>>
        /\ regs = pre.regs
        /\ cached_resolution = pre.cache

C3_Witness ==
    /\ op = "acceleration_range" /\ arg = 4
    /\ pc = "idle" /\ result = "ValueError"
    /\ ResolutionModeBit(regs) = 0 /\ cached_resolution = 16

\* C4: a set-Acceleration-Range or set-Resolution-Mode call that ends in a
\* transport error leaves the cache at its value from before the call.
C4_FailedCallKeepsCache ==
    (pc = "idle" /\ op \in {"acceleration_range", "resolution_mode"}
        /\ result = "OSError") => cached_resolution = pre.cache

\* C5: after a setter call that ends in a transport error (and that started
\* with the cache matching the registers), the cache still equals the
\* resolution dictated by the Resolution Mode and Range held in the device
\* registers.
C5_FailedCallKeepsConsistency ==
    (pc = "idle" /\ op \in Setters /\ result = "OSError"
        /\ pre.cache = Dictated(pre.regs)) => cached_resolution = Dictated(regs)

\* C6: at no step of set-Resolution-Mode does the device register hold the
\* newly written Resolution Mode while the cache does not hold the
\* resolution that this mode dictates.
C6_ModeNeverAheadOfCache ==
    (op = "resolution_mode" /\ pc # "idle"
        /\ ResolutionModeBit(regs) # ResolutionModeBit(pre.regs))
    => cached_resolution = Dictated(regs)

\* C7: in set-Acceleration-Range, when the range write is about to be
\* issued the cache already holds the value for the new range and the
\* Resolution Mode of the device (table value in LOW_RES, 0.004 in HIGH_RES)
\* while the register still holds the old range; and whenever the register
\* holds a range changed by the call, it is the requested range and the
\* cache holds the value dictated for it.
C7_RangeWrittenAfterCache ==
    /\ pc = "acceleration_range_write" =>
          /\ cached_resolution =
                (IF ResolutionModeBit(regs) = 0 THEN TableValue(arg) ELSE 4)
          /\ regs = pre.regs
    /\ (op = "acceleration_range" /\ RangeBits(regs) # RangeBits(pre.regs)) =>
          /\ RangeBits(regs) = arg
          /\ cached_resolution = Dictated(regs)

C7_Witness ==
    /\ op = "acceleration_range" /\ pc = "acceleration_range_write"
    /\ arg = 2 /\ RangeBits(regs) = 0
    /\ ResolutionModeBit(regs) = 0
    /\ cached_resolution = 16 /\ pre.cache = 4

InitLog ==
    <<Rd(REG_WHOAMI), Rd(POWER_CTL), Wr(POWER_CTL), Rd(DATA_FORMAT), Wr(DATA_FORMAT)>>

\* C8: construction reads the identity, then writes Measurement Mode =
\* READY, then writes Resolution Mode = HIGH_RES, then sets the cache to
\* 0.004, in this order; and no other operation runs before the cache is set.
C8_ConstructionOrder ==
    /\ pc = "init_measurement_mode" =>
          log = SubSeq(InitLog, 1, 1) /\ ~cache_set /\ regs = pre.regs
    /\ pc = "init_resolution_mode" =>
          /\ log = SubSeq(InitLog, 1, 3) /\ ~cache_set
          /\ MeasurementModeBit(regs) = 1
          /\ regs[DATA_FORMAT] = pre.regs[DATA_FORMAT]
    /\ pc = "init_cached_resolution" =>
          /\ log = InitLog /\ ~cache_set
          /\ MeasurementModeBit(regs) = 1 /\ ResolutionModeBit(regs) = 1
    /\ (op = "__init__" /\ pc = "idle") =>
          log = InitLog /\ cache_set /\ cached_resolution = 4
    /\ op # "__init__" => cache_set

C8_Witness ==
    /\ op = "__init__" /\ pc = "idle" /\ log = InitLog
    /\ cache_set /\ cached_resolution = 4
    /\ MeasurementModeBit(pre.regs) = 0 /\ ResolutionModeBit(pre.regs) = 0

\* C9: whatever the registers held before, a successful construction ends
\* with Measurement Mode = READY, Resolution Mode = HIGH_RES, cache = 0.004,
\* and every other register bit, the Range bits included, as it was.
C9_ConstructionPostcondition ==
    (op = "__init__" /\ pc = "idle") =>
        /\ MeasurementModeBit(regs) = 1
        /\ ResolutionModeBit(regs) = 1
        /\ cached_resolution = 4
        /\ RangeBits(regs) = RangeBits(pre.regs)
        /\ regs[POWER_CTL] = BitOr(pre.regs[POWER_CTL], 8, 0)
        /\ regs[DATA_FORMAT] = BitOr(pre.regs[DATA_FORMAT], 8, 0)
        /\ regs[REG_WHOAMI] = pre.regs[REG_WHOAMI]

C9_Witness ==
    /\ op = "__init__" /\ pc = "idle"
    /\ pre.regs[POWER_CTL] = 4
    /\ pre.regs[DATA_FORMAT] = 6
    /\ regs[DATA_FORMAT] = 14

\* C10: after a set-Resolution-Mode call that completed, the cache equals
\* the table value of the Range bits in the device register if the value
\* was LOW_RES, and 0.004 if it was HIGH_RES.
C10_ModeSetterPostcondition ==
    (pc = "idle" /\ op = "resolution_mode" /\ result = "ok") =>
        cached_resolution = (IF arg = 0 THEN TableValue(RangeBits(regs)) ELSE 4)

C10_Witness ==
    /\ pc = "idle" /\ op = "resolution_mode" /\ result = "ok"
    /\ arg = 0 /\ ResolutionModeBit(pre.regs) = 1
    /\ RangeBits(regs) = 2
    /\ pre.cache = 4 /\ cached_resolution = 16

\* The value a setting holds in a register file.
FieldOf(name, r) ==
    CASE name = "measurement_mode" -> MeasurementModeBit(r)
      [] name = "resolution_mode" -> ResolutionModeBit(r)
      [] name = "acceleration_range" -> RangeBits(r)

\* C11: a setter call that completes with the value its setting already
\* holds in the device register leaves every register and the cache as they
\* were before the call.
C11_SameValueChangesNothing ==
    (pc = "idle" /\ op \in Setters /\ result = "ok"
        /\ arg = FieldOf(op, pre.regs))
    => (regs = pre.regs /\ cached_resolution = pre.cache)

\* C12: reading the acceleration issues exactly one bus transaction, the
\* read of the raw-sample block: it writes nothing, reads neither the
\* Resolution Mode nor the Range, and leaves the cache and every device
\* register as they were.
C12_AccelerationReadOnly ==
    op = "acceleration" =>
        /\ regs = pre.regs
        /\ cached_resolution = pre.cache
        /\ NoWrite(log)
        /\ \A i \in 1..Len(log) : log[i] = Rd(ACC)
        /\ (pc = "acceleration_data" => log = <<>>)
        /\ (pc \in {"acceleration_scale", "idle"} => log = <<Rd(ACC)>>)

C12_Witness ==
    /\ op = "acceleration" /\ pc = "idle" /\ result = "ok"
    /\ log = <<Rd(ACC)>>
    /\ ResolutionModeBit(regs) = 0 /\ RangeBits(regs) = 2
    /\ cached_resolution = 16

\* raw x 980665 x thousandths / 10^8 as the pair <<h, l>> meaning
\* h * 10^-4 + l * 10^-8, worked out in limbs of 1000 and 10.
Expected(raw, thousandths) ==
    LET a  == raw * thousandths
        t  == a * 980
        u  == a * 665
        t1 == t \div 10
        t0 == t % 10
        w  == 1000 * t0 + u
    IN  <<t1 + (w \div 10000), w % 10000>>

\* C13: a completed acceleration read returns, for each axis, the raw count
\* times 9.80665 times the cache, each axis with the same cache value; a
\* zero count gives zero, the sign of the count is kept, and cache 0.004
\* with the sample (1000, -500, 0) gives (39.2266, -19.6133, 0.0).
C13_AccelerationScaling ==
    (op = "acceleration" /\ pc = "idle" /\ result = "ok") =>
        /\ Len(ret) = 3
        /\ \A i \in 1..3 :
              /\ ret[i] = Expected(rd[i], cached_resolution)
              /\ (rd[i] = 0 => ret[i] = <<0, 0>>)
              /\ (rd[i] > 0 => ret[i][1] > 0)
              /\ (rd[i] < 0 => ret[i][1] < 0)
        /\ (rd = <<1000, -500, 0>> /\ cached_resolution = 4) =>
              ret = << <<392266, 0>>, <<-196133, 0>>, <<0, 0>> >>

C13_Witness ==
    /\ op = "acceleration" /\ pc = "idle" /\ result = "ok"
    /\ rd = <<-32768, 1000, 0>> /\ cached_resolution = 31
    /\ ret = << <<-99616736, 7680>>, <<3040061, 5000>>, <<0, 0>> >>

Count(l, e) == Cardinality({i \in 1..Len(l) : l[i] = e})

\* C14: the identity register is read once, as the first transaction of
\* construction, and by no getter, setter or acceleration read afterwards;
\* when the identity does not match, construction issues nothing after
\* that read.
C14_IdentityReadOnce ==
    /\ op = "__init__" =>
          /\ Count(log, Rd(REG_WHOAMI)) = (IF pc = "init_device_id" THEN 0 ELSE 1)
          /\ (log # <<>> => log[1] = Rd(REG_WHOAMI))
    /\ op # "__init__" => Count(log, Rd(REG_WHOAMI)) = 0
    /\ (pc = "dead" /\ result = "RuntimeError") => log = <<Rd(REG_WHOAMI)>>

C14_Witness ==
    /\ op = "get_measurement_mode" /\ pc = "idle" /\ result = "ok"
    /\ log = <<Rd(POWER_CTL)>>
    /\ ret = <<"STANDBY">>

\* The name the getters give to each value of a setting.
NameOf(name, v) ==
    CASE name = "measurement_mode" ->
            (CASE v = 0 -> "STANDBY" [] v = 1 -> "READY")
      [] name = "resolution_mode" ->
            (CASE v = 0 -> "LOW_RES" [] v = 1 -> "HIGH_RES")
      [] name = "acceleration_range" ->
            (CASE v = 0 -> "RANGE_2" [] v = 1 -> "RANGE_4"
               [] v = 2 -> "RANGE_8" [] v = 3 -> "RANGE_16")

\* C15: once a set of a setting to v has completed, and until a set of that
\* same setting is begun again, the device field holds v through every
\* other call, and every completed read of the setting's getter returns the
\* name of v.
C15_SetGetRoundTrip ==
    /\ \A s \in Setters :
          /\ (op = s /\ pc = "idle" /\ result = "ok") => last_set[s] = arg
          /\ last_set[s] # -1 => FieldOf(s, regs) = last_set[s]
    /\ \A s \in Setters :
          (op = "get_" \o s /\ pc = "idle" /\ result = "ok" /\ last_set[s] # -1)
          => ret = <<NameOf(s, last_set[s])>>

C15_Witness ==
    /\ op = "get_acceleration_range" /\ pc = "idle" /\ result = "ok"
    /\ last_set["acceleration_range"] = 2
    /\ last_set["resolution_mode"] = 0
    /\ last_set["measurement_mode"] = 0
    /\ ret = <<"RANGE_8">>

\* C16: set-Measurement-Mode changes nothing but bit 3 of POWER_CTL and
\* leaves the cache alone; set-Acceleration-Range changes no register bit
\* but bits 0-1 of DATA_FORMAT; set-Resolution-Mode changes no register bit
\* but bit 3 of DATA_FORMAT.
C16_SetterFrames ==
    /\ op = "measurement_mode" =>
          /\ cached_resolution = pre.cache
          /\ regs[DATA_FORMAT] = pre.regs[DATA_FORMAT]
          /\ regs[REG_WHOAMI] = pre.regs[REG_WHOAMI]
          /\ BitClear(regs[POWER_CTL], 8, 0) = BitClear(pre.regs[POWER_CTL], 8, 0)
    /\ op = "acceleration_range" =>
          /\ ResolutionModeBit(regs) = ResolutionModeBit(pre.regs)
          /\ MeasurementModeBit(regs) = MeasurementModeBit(pre.regs)
          /\ regs[POWER_CTL] = pre.regs[POWER_CTL]
          /\ regs[REG_WHOAMI] = pre.regs[REG_WHOAMI]
          /\ BitClear(regs[DATA_FORMAT], 3, 0) = BitClear(pre.regs[DATA_FORMAT], 3, 0)
    /\ op = "resolution_mode" =>
          /\ RangeBits(regs) = RangeBits(pre.regs)
          /\ MeasurementModeBit(regs) = MeasurementModeBit(pre.regs)
          /\ regs[POWER_CTL] = pre.regs[POWER_CTL]
          /\ regs[REG_WHOAMI] = pre.regs[REG_WHOAMI]
          /\ BitClear(regs[DATA_FORMAT], 8, 0) = BitClear(pre.regs[DATA_FORMAT], 8, 0)

C16_Witness ==
    /\ op = "resolution_mode" /\ pc = "idle" /\ result = "ok"
    /\ arg = 0 /\ pre.regs[DATA_FORMAT] = 15
    /\ regs[DATA_FORMAT] = 7

====
